---- MODULE Spec2Model ----
(***************************************************************************)
(* A model of the thinking-machines reasoning session:                     *)
(*   - utils/llm.py   LLMClient: format_task_message, the response parser, *)
(*                    the usage normaliser, get_completion,                *)
(*                    start_reasoning and continue_reasoning;              *)
(*   - utils/ui.py    calculate_step_cost, display_step, get_next_command; *)
(*   - utils/cli.py   think: the command loop that drives the engine.      *)
(*                                                                         *)
(* Text is modelled as a sequence of string tokens: a message, a command   *)
(* and a raw response are all sequences, so that concatenation, line       *)
(* breaks and fences are structure the model computes with.                *)
(*                                                                         *)
(* Three specifications share the engine operators:                        *)
(*   Spec        the program: think() driving one session;                 *)
(*   EngineSpec  LLMClient used as a library: any sequence of              *)
(*               start_reasoning / continue_reasoning calls, each          *)
(*               succeeding or failing;                                    *)
(*   UnitSpec    one function applied once to one input: the parser, the   *)
(*               fence extraction, start and continue on one raw reply,    *)
(*               the usage normaliser, the cost calculator.                *)
(***************************************************************************)
EXTENDS Integers, Sequences, FiniteSets, TLC

VARIABLES
    cfg,            \* think's options (task, mode, language, max_steps, auto, auto_mode) and the build
    pc,             \* position of think: "start", "loop", "saved", "error"; "library" under EngineSpec
    messages,       \* the caller's transcript: the list start_reasoning returns and continue_reasoning mutates
    step_data,      \* the most recent parsed Step
    command,        \* think's local `command`: the last command obtained
    commands,       \* think's `commands`: the command history of the trace
    current_step,   \* think's `current_step`
    all_steps,      \* think's `all_steps`
    total_costs,    \* think's `total_costs`
    displayed,      \* what display_step last put in the step header
    request,        \* the messages of the last request the transport received
    ncalls,         \* number of requests the transport has received
    last,           \* the last engine call as its caller saw it: operation, outcome, command
    reply,          \* what the transport answered to the last request
    sink,           \* the debug sink: the client's call_counter and the records written
    request_params, \* the parameters of the last request besides its messages
    trace,          \* the trace file save_trace has written, if any
    unit            \* one application of a pure function: its name, its input, its result

vars == <<cfg, pc, messages, step_data, command, commands, current_step,
          all_steps, total_costs, displayed, request, ncalls, last, reply,
          sink, request_params, trace, unit>>

(***************************************************************************)
(* Bounds of the model.                                                    *)
(***************************************************************************)
\* Transport calls per session: the loop of think has no bound of its own.
MaxCalls == 3

\* Fenced blocks in one raw response.
MaxBlocks == 2

(***************************************************************************)
(* Program constants.                                                      *)
(***************************************************************************)
DefaultMode == "EXPLORE_OPTIMAL"
DefaultLanguage == "English"
DefaultMaxSteps == 10

(***************************************************************************)
(* Helpers on sequences.                                                   *)
(***************************************************************************)
Last(s) == s[Len(s)]

IsPrefix(s, t) == Len(s) <= Len(t) /\ SubSeq(t, 1, Len(s)) = s

\* Index of the first position >= from whose token is tok, or 0.
RECURSIVE IndexFrom(_, _, _)
IndexFrom(s, tok, from) ==
    IF from > Len(s) THEN 0
    ELSE IF s[from] = tok THEN from
    ELSE IndexFrom(s, tok, from + 1)

(***************************************************************************)
(* Inputs.                                                                 *)
(***************************************************************************)
Tasks == {"X"}
Modes == {"EXPLORE_OPTIMAL", "GO_SLIGHTLY_WRONG", "GO_VERY_WRONG"}
\* The modes the sessions of think are run with.
ThinkModes == {"EXPLORE_OPTIMAL", "GO_VERY_WRONG"}
Languages == {"English", "French"}
MaxStepsValues == {2, 10}

\* How an f-string renders a member of `class Mode(str, Enum)`: its value
\* before Python 3.11, "Mode.<NAME>" from 3.11 on. A plain str renders as itself.
EnumFormats == {"value", "name"}

\* The code-fence delimiter: three backticks.
Fence == "[fence]"

(***************************************************************************)
(* Values handed to an f-string. `value` is what == compares, `text` is    *)
(* what {x} interpolates.                                                  *)
(***************************************************************************)
StrArg(v) == [value |-> v, text |-> <<v>>]

\* A member of cli.Mode (str, Enum) as think receives it from typer.
ModeMember(v, fmt) ==
    [value |-> v, text |-> IF fmt = "value" THEN <<v>> ELSE <<"Mode.", v>>]

(***************************************************************************)
(* LLMClient.format_task_message                                           *)
(***************************************************************************)
FormatTaskMessage(task, mode, language, max_steps) ==
    LET m0 == <<"TASK: ", Fence, task, Fence, "\n">>
        m1 == IF mode.value # DefaultMode
              THEN m0 \o <<"MODE: ">> \o mode.text \o <<"\n">>
              ELSE m0
        m2 == IF language # DefaultLanguage
              THEN m1 \o <<"REASONING_LANGUAGE: ", language, "\n">>
              ELSE m1
        m3 == IF max_steps # DefaultMaxSteps
              THEN m2 \o <<"MAX_STEPS: ", ToString(max_steps), "\n">>
              ELSE m2
    IN  m3

(***************************************************************************)
(* Steps and raw responses.                                                *)
(*                                                                         *)
(* A Step keeps the two fields think's loop reads: is_final_result         *)
(* ("absent", "true", "false") and solution.type ("absent" when the Step   *)
(* has no solution, else "NONE", "PARTIAL", "FINAL").                      *)
(***************************************************************************)
Step(flag, type) == [is_final_result |-> flag, solution_type |-> type]

NoStep == Step("absent", "absent")

\* json.loads on one JSON document: the documents of the model and the
\* object each decodes to.
JsonDocs ==
    [d \in {"{plain}", "{none}", "{partial}", "{final}", "{flag,partial}", "{flag}"} |->
        CASE d = "{plain}"        -> Step("absent", "absent")
          [] d = "{none}"         -> Step("false", "NONE")
          [] d = "{partial}"      -> Step("false", "PARTIAL")
          [] d = "{final}"        -> Step("false", "FINAL")
          [] d = "{flag,partial}" -> Step("true", "PARTIAL")
          [] d = "{flag}"         -> Step("true", "absent")]

Whitespace == {"\n", " "}

\* str.strip()
RECURSIVE LStrip(_)
LStrip(s) == IF s # <<>> /\ s[1] \in Whitespace THEN LStrip(Tail(s)) ELSE s

RECURSIVE RStrip(_)
RStrip(s) ==
    IF s # <<>> /\ Last(s) \in Whitespace THEN RStrip(SubSeq(s, 1, Len(s) - 1)) ELSE s

Strip(s) == LStrip(RStrip(s))

\* json.loads: succeeds on exactly one JSON document, with nothing around it
\* but whitespace.
JsonLoads(text) ==
    LET t == Strip(text) IN
    IF Len(t) = 1 /\ t[1] \in DOMAIN JsonDocs
    THEN [ok |-> TRUE, value |-> JsonDocs[t[1]]]
    ELSE [ok |-> FALSE, value |-> NoStep]

(***************************************************************************)
(* LLMClient._extract_json_from_markdown                                   *)
(*   the first fenced block, an optional json tag, lazily up to the next   *)
(*   fence; matches[0].strip(); without a fenced block, text.strip()       *)
(***************************************************************************)
\* Takes the last fenced block instead of the first.
ExtractJsonFromMarkdown_LastBlock(text) ==
    LET fences == {i \in 1..Len(text) : text[i] = Fence}
        close == IF fences = {} THEN 0 ELSE CHOOSE i \in fences : \A j \in fences : j <= i
        opens == {i \in fences : i < close}
        open == IF opens = {} THEN 0 ELSE CHOOSE i \in opens : \A j \in opens : j <= i
        afterTag == IF open > 0 /\ text[open + 1] = "json" THEN open + 2 ELSE open + 1
    IN  IF open > 0
        THEN Strip(SubSeq(text, afterTag, close - 1))
        ELSE Strip(text)

ExtractJsonFromMarkdown(text) ==
    LET open == IndexFrom(text, Fence, 1)
        afterTag == IF open > 0 /\ open < Len(text) /\ text[open + 1] = "json"
                    THEN open + 2 ELSE open + 1
        close == IF open > 0 THEN IndexFrom(text, Fence, afterTag) ELSE 0
    IN  IF open > 0 /\ close > 0
        THEN Strip(SubSeq(text, afterTag, close - 1))
        ELSE Strip(text)

(***************************************************************************)
(* json_repair.repair_json, the last-resort stage: it mends a document     *)
(* with a trailing comma and returns the empty string for text in which it *)
(* finds no document.                                                      *)
(***************************************************************************)
Repairs ==
    [d \in {"{plain,}", "{final,}"} |-> IF d = "{plain,}" THEN "{plain}" ELSE "{final}"]

RepairJson(text) ==
    LET t == Strip(text) IN
    IF Len(t) = 1 /\ t[1] \in DOMAIN Repairs THEN <<Repairs[t[1]]>> ELSE <<>>

\* str(e) of the json.JSONDecodeError the last json.loads raises.
JsonDecodeError == "Expecting value"

(***************************************************************************)
(* LLMClient._parse_response_content. `calls` lists the functions the      *)
(* parser invoked, in order; `error` is the message of the ValueError it   *)
(* raises when the three stages fail.                                      *)
(***************************************************************************)
Parsed(loaded, calls) ==
    [ok |-> loaded.ok, value |-> loaded.value, calls |-> calls,
     error |-> IF loaded.ok THEN <<>>
               ELSE <<"Failed to parse response as JSON even after repair attempt: ",
                      JsonDecodeError>>]

\* Starts with the fenced block, without trying the raw text.
ParseResponseContent_ExtractFirst(content) ==
    LET extracted_content == ExtractJsonFromMarkdown(content)
        fenced == JsonLoads(extracted_content)
    IN  IF fenced.ok
        THEN Parsed(fenced, <<"_extract_json_from_markdown", "json.loads">>)
        ELSE Parsed(JsonLoads(RepairJson(extracted_content)),
                    <<"_extract_json_from_markdown", "json.loads", "repair_json", "json.loads">>)

\* Returns an empty Step when the three stages fail.
ParseResponseContent_EmptyStep(content) ==
    LET extracted_content == ExtractJsonFromMarkdown(content)
        loaded == IF JsonLoads(content).ok THEN JsonLoads(content)
                  ELSE IF JsonLoads(extracted_content).ok THEN JsonLoads(extracted_content)
                  ELSE JsonLoads(RepairJson(extracted_content))
    IN  Parsed([ok |-> TRUE, value |-> loaded.value], <<"json.loads">>)

ParseResponseContent(content) ==
    LET direct == JsonLoads(content) IN
    IF direct.ok THEN Parsed(direct, <<"json.loads">>)
    ELSE LET extracted_content == ExtractJsonFromMarkdown(content)
             fenced == JsonLoads(extracted_content)
         IN  IF fenced.ok
             THEN Parsed(fenced, <<"json.loads", "_extract_json_from_markdown", "json.loads">>)
             ELSE LET repaired_json == RepairJson(extracted_content) IN
                  Parsed(JsonLoads(repaired_json),
                         <<"json.loads", "_extract_json_from_markdown", "json.loads",
                           "repair_json", "json.loads">>)

(***************************************************************************)
(* Provider usage payloads and LLMClient._extract_token_usage.             *)
(* A payload carries the three counts and, depending on the provider, a    *)
(* nested prompt_tokens_details.cached_tokens (OpenAI) or a flat           *)
(* prompt_cache_hit_tokens (Deepseek). An attribute is absent, None or an  *)
(* integer; prompt_tokens_details is absent, None or an object with a      *)
(* cached_tokens attribute of its own.                                     *)
(***************************************************************************)
Absent == [kind |-> "absent", n |-> 0]

NoneValue == [kind |-> "None", n |-> 0]

IntValue(n) == [kind |-> "int", n |-> n]

Details(kind, cached_tokens) == [kind |-> kind, cached_tokens |-> cached_tokens]

NoDetails == Details("absent", Absent)

Usage(p, c, t, details, hit) ==
    [prompt_tokens |-> p, completion_tokens |-> c, total_tokens |-> t,
     prompt_tokens_details |-> details, prompt_cache_hit_tokens |-> hit]

UsageOpenAI == Usage(100, 50, 150, Details("object", IntValue(20)), Absent)
UsageDeepseek == Usage(85, 43, 128, NoDetails, IntValue(31))

\* A time in seconds is a fraction num / den of integers, den > 0: the code
\* computes it in floating point, the model exactly.
Fraction(num, den) == [num |-> num, den |-> den]

\* total_time * prompt_ratio and total_time * (1 - prompt_ratio)
TimesRatio(total_time, ratio) == Fraction(total_time * ratio.num, ratio.den)

TimesComplement(total_time, ratio) ==
    Fraction(total_time * (ratio.den - ratio.num), ratio.den)

\* getattr(obj, name, 0) on an attribute
GetAttrOrZero(attr) == IF attr.kind = "absent" THEN IntValue(0) ELSE attr

TokenUsage(usage, fault, prompt_time, completion_time, cached) ==
    [prompt_tokens |-> usage.prompt_tokens,
     completion_tokens |-> usage.completion_tokens,
     total_tokens |-> usage.total_tokens,
     cached_tokens |-> cached.n,
     cached_tokens_is_none |-> cached.kind = "None",
     prompt_time |-> prompt_time,
     completion_time |-> completion_time,
     fault |-> fault]

CachedTokens(usage) ==
    IF usage.prompt_tokens_details.kind = "object"
    THEN GetAttrOrZero(usage.prompt_tokens_details.cached_tokens)
    ELSE IF usage.prompt_cache_hit_tokens.kind # "absent"
    THEN usage.prompt_cache_hit_tokens
    ELSE IntValue(0)

\* Divides by total_tokens whatever it is.
ExtractTokenUsage_NoGuard(usage, total_time) ==
    IF usage.total_tokens = 0
    THEN TokenUsage(usage, "ZeroDivisionError", Fraction(0, 1), Fraction(0, 1),
                    CachedTokens(usage))
    ELSE LET prompt_ratio == Fraction(usage.prompt_tokens, usage.total_tokens) IN
         TokenUsage(usage, "none", TimesRatio(total_time, prompt_ratio),
                    TimesComplement(total_time, prompt_ratio), CachedTokens(usage))

ExtractTokenUsage(usage, total_time) ==
    LET prompt_ratio == IF usage.total_tokens > 0
                        THEN Fraction(usage.prompt_tokens, usage.total_tokens)
                        ELSE Fraction(1, 2)
        prompt_time == TimesRatio(total_time, prompt_ratio)
        completion_time == TimesComplement(total_time, prompt_ratio)
    IN  TokenUsage(usage, "none", prompt_time, completion_time, CachedTokens(usage))

NoUsage ==
    [prompt_tokens |-> 0, completion_tokens |-> 0, total_tokens |-> 0, cached_tokens |-> 0,
     cached_tokens_is_none |-> FALSE, prompt_time |-> Fraction(0, 1),
     completion_time |-> Fraction(0, 1), fault |-> "none"]

(***************************************************************************)
(* Costs are Python floats. A float keeps a fixed number of significant    *)
(* digits and every addition rounds its exact result to that many digits,  *)
(* ties to even. The model keeps FloatDigits decimal digits where the      *)
(* interpreter keeps 53 binary ones; a value is held as an integer number  *)
(* of millionths of the currency unit.                                     *)
(***************************************************************************)
FloatDigits == 3

RECURSIVE FloatUlp(_, _)
FloatUlp(a, s) == IF a < (10 ^ FloatDigits) * s THEN s ELSE FloatUlp(a, s * 10)

Abs(x) == IF x < 0 THEN 0 - x ELSE x

RoundTo(a, s) ==
    IF 2 * (a % s) > s \/ (2 * (a % s) = s /\ (a \div s) % 2 = 1)
    THEN ((a \div s) + 1) * s
    ELSE (a \div s) * s

RoundFloat(x) ==
    IF x < 0 THEN 0 - RoundTo(0 - x, FloatUlp(0 - x, 1)) ELSE RoundTo(x, FloatUlp(x, 1))

\* a + b on two floats
FloatAdd(a, b) == RoundFloat(a + b)

(***************************************************************************)
(* ui.calculate_step_cost. Prices are per 1,000,000 tokens; a cost is kept *)
(* as its numerator tokens * price, in millionths of the currency unit.    *)
(* The products of the token counts and prices used here fit a float       *)
(* exactly; the sum of the three costs is a float sum, left to right.      *)
(***************************************************************************)
Pricing == [input_tokens |-> 5, cached_tokens |-> 1, output_tokens |-> 15]

\* Charges every prompt token at the input price, cached or not.
CalculateStepCost_FullPrompt(token_usage, pricing) ==
    LET input_cost == token_usage.prompt_tokens * pricing.input_tokens
        cached_cost == token_usage.cached_tokens * pricing.cached_tokens
        output_cost == token_usage.completion_tokens * pricing.output_tokens
    IN  [input_cost |-> input_cost, cached_cost |-> cached_cost,
         output_cost |-> output_cost,
         total_cost |-> FloatAdd(FloatAdd(input_cost, cached_cost), output_cost)]

CalculateStepCost(token_usage, pricing) ==
    LET effective_tokens == token_usage.prompt_tokens - token_usage.cached_tokens
        input_cost == effective_tokens * pricing.input_tokens
        cached_cost == token_usage.cached_tokens * pricing.cached_tokens
        output_cost == token_usage.completion_tokens * pricing.output_tokens
    IN  [input_cost |-> input_cost, cached_cost |-> cached_cost,
         output_cost |-> output_cost,
         total_cost |-> FloatAdd(FloatAdd(input_cost, cached_cost), output_cost)]

ZeroCosts == [input_cost |-> 0, cached_cost |-> 0, output_cost |-> 0, total_cost |-> 0]

\* think: for cost_type in total_costs: total_costs[cost_type] += step_costs[cost_type]
AddCosts_Last(total, step) ==
    [k \in DOMAIN total |-> step[k]]

AddCosts(total, step) ==
    [k \in DOMAIN total |-> FloatAdd(total[k], step[k])]

(***************************************************************************)
(* What the transport can answer: it fails, or it returns raw assistant    *)
(* text with a usage payload, `seconds` of wall-clock time after the       *)
(* request was sent.                                                       *)
(***************************************************************************)
Response(ok, content, usage, seconds) ==
    [transport_ok |-> ok, content |-> content, usage |-> usage, seconds |-> seconds,
     debug |-> "none"]

\* With a debug sink the environment also decides whether the record of the
\* call can be written: "none" without a sink, else "written" or "failed".
DebugOutcomes(debug) == IF debug THEN {"written", "failed"} ELSE {"none"}

WithDebug(resp, outcome) == [resp EXCEPT !.debug = outcome]

RawFenced(doc) == <<"Here:", "\n", Fence, "json", "\n", doc, "\n", Fence, "\n">>

Responses ==
    { Response(TRUE, <<"{plain,}">>, UsageOpenAI, 3),
      Response(TRUE, RawFenced("{partial}"), UsageDeepseek, 2),
      Response(TRUE, <<"{final}">>, UsageDeepseek, 2),
      Response(TRUE, <<"{flag,partial}">>, UsageOpenAI, 3),
      Response(TRUE, <<"I", " ", "cannot">>, UsageOpenAI, 3),
      Response(FALSE, <<>>, UsageOpenAI, 3) }

\* What the environment does during one call: the transport's answer and
\* the fate of the debug record. A call the transport fails writes none.
Environment(debug) ==
    { WithDebug(resp, d) : resp \in { r \in Responses : r.transport_ok },
                           d \in DebugOutcomes(debug) }
        \cup { r \in Responses : ~r.transport_ok }

(***************************************************************************)
(* Turns.                                                                  *)
(***************************************************************************)
Turn(role, content) == [role |-> role, content |-> content]

SystemPrompt == <<"SYSTEM_PROMPT">>

(***************************************************************************)
(* LLMClient._save_debug_info and the debug sink. The sink is the client's *)
(* call_counter and the records written so far, in the order written. A    *)
(* record is written only for a call the transport answered; the counter   *)
(* is incremented before the record is built and written.                  *)
(***************************************************************************)
NoSink == [call_counter |-> 0, records |-> <<>>]

DebugRecord(call_number, full_messages, content) ==
    [call_number |-> call_number, messages |-> full_messages, content |-> content]

SaveDebugInfo(s, full_messages, resp) ==
    IF resp.debug = "none" \/ ~resp.transport_ok
    THEN s
    ELSE [call_counter |-> s.call_counter + 1,
          records |-> IF resp.debug = "written"
                      THEN Append(s.records,
                                  DebugRecord(s.call_counter + 1, full_messages, resp.content))
                      ELSE s.records]

(***************************************************************************)
(* LLMClient.get_completion, lines 189-199: the request parameters. The    *)
(* response format is set only when enforce_json_response is true.         *)
(***************************************************************************)
NoParams == [response_format |-> "absent"]

\* Asks for JSON-object output whatever the option says.
RequestParams_Always(enforce_json_response) == [response_format |-> "json_object"]

RequestParams(enforce_json_response) ==
    [response_format |-> IF enforce_json_response THEN "json_object" ELSE "absent"]

(***************************************************************************)
(* LLMClient.get_completion: the request is the system turn followed by    *)
(* the transcript; the transport may raise; the reply is parsed.           *)
(***************************************************************************)
\* The transport raised: nothing is parsed.
TransportError(full_messages) ==
    [ok |-> FALSE, error |-> "transport", message |-> <<"transport error">>,
     request |-> full_messages, step |-> NoStep, usage |-> NoUsage, content |-> <<>>]

\* lines 204-206: _save_debug_info raised (the record could not be written);
\* nothing catches it, the call ends before the reply is parsed.
DebugError(full_messages) ==
    [ok |-> FALSE, error |-> "debug", message |-> <<"debug record error">>,
     request |-> full_messages, step |-> NoStep, usage |-> NoUsage, content |-> <<>>]

\* lines 212-218: the parsed Step with the usage, or the parser's ValueError
\* raised again.
Completion(full_messages, content, token_usage, parsed) ==
    IF parsed.ok
    THEN [ok |-> TRUE, error |-> "none", message |-> <<>>,
          request |-> full_messages,
          step |-> parsed.value, usage |-> token_usage, content |-> content]
    ELSE [ok |-> FALSE, error |-> "parse",
          message |-> <<"Failed to parse response: ">> \o parsed.error,
          request |-> full_messages,
          step |-> NoStep, usage |-> NoUsage, content |-> <<>>]

GetCompletion(msgs, resp) ==
    IF ~resp.transport_ok
    THEN TransportError(<<Turn("system", SystemPrompt)>> \o msgs)
    ELSE IF resp.debug = "failed"
    THEN DebugError(<<Turn("system", SystemPrompt)>> \o msgs)
    ELSE Completion(<<Turn("system", SystemPrompt)>> \o msgs, resp.content,
                    ExtractTokenUsage(resp.usage, resp.seconds),
                    ParseResponseContent(resp.content))

(***************************************************************************)
(* LLMClient.start_reasoning. `messages` of the result is the list the     *)
(* caller gets back; a failed call returns nothing.                        *)
(***************************************************************************)
\* Keeps the system turn in the transcript it returns.
StartReasoning_StoreSystem(task, mode, language, max_steps, resp) ==
    LET task_message == FormatTaskMessage(task, mode, language, max_steps)
        msgs == <<Turn("system", SystemPrompt), Turn("user", task_message)>>
        c == GetCompletion(msgs, resp)
    IN  [ok |-> c.ok, error |-> c.error, message |-> c.message, request |-> c.request,
         step |-> c.step, usage |-> c.usage,
         messages |-> IF c.ok THEN Append(msgs, Turn("assistant", c.content)) ELSE <<>>]

\* What a call hands back: the outcome c of get_completion, and the
\* transcript: the one sent with the reply appended when the call succeeded,
\* else what a failed call leaves.
Outcome(c, sent, left) ==
    [ok |-> c.ok, error |-> c.error, message |-> c.message, request |-> c.request,
     step |-> c.step, usage |-> c.usage,
     messages |-> IF c.ok THEN Append(sent, Turn("assistant", c.content)) ELSE left]

StartWith(msgs, resp) == Outcome(GetCompletion(msgs, resp), msgs, <<>>)

StartReasoning(task, mode, language, max_steps, resp) ==
    StartWith(<<Turn("user", FormatTaskMessage(task, mode, language, max_steps))>>, resp)

(***************************************************************************)
(* LLMClient.continue_reasoning. It appends to the caller's list in place: *)
(* `messages` of the result is that list after the call, returned or not.  *)
(***************************************************************************)
\* Sends the request before recording the command in the transcript.
ContinueReasoning_SendFirst(msgs, cmd, resp) ==
    LET c == GetCompletion(msgs, resp)
        m1 == Append(msgs, Turn("user", cmd))
    IN  [ok |-> c.ok, error |-> c.error, message |-> c.message, request |-> c.request,
         step |-> c.step, usage |-> c.usage,
         messages |-> IF c.ok THEN Append(m1, Turn("assistant", c.content)) ELSE m1]

\* Takes the user turn back when the call fails.
ContinueReasoning_Rollback(msgs, cmd, resp) ==
    LET m1 == Append(msgs, Turn("user", cmd))
        c == GetCompletion(m1, resp)
    IN  [ok |-> c.ok, error |-> c.error, message |-> c.message, request |-> c.request,
         step |-> c.step, usage |-> c.usage,
         messages |-> IF c.ok THEN Append(m1, Turn("assistant", c.content)) ELSE msgs]

\* Keeps a window of the transcript: the task turn and the newest exchange.
ContinueReasoning_Window(msgs, cmd, resp) ==
    LET m1 == <<msgs[1]>> \o <<Turn("user", cmd)>>
        c == GetCompletion(m1, resp)
    IN  [ok |-> c.ok, error |-> c.error, message |-> c.message, request |-> c.request,
         step |-> c.step, usage |-> c.usage,
         messages |-> IF c.ok THEN Append(m1, Turn("assistant", c.content)) ELSE m1]

\* Records the reply before the command that asked for it.
ContinueReasoning_ReplyFirst(msgs, cmd, resp) ==
    LET m1 == Append(msgs, Turn("user", cmd))
        c == GetCompletion(m1, resp)
    IN  [ok |-> c.ok, error |-> c.error, message |-> c.message, request |-> c.request,
         step |-> c.step, usage |-> c.usage,
         messages |-> IF c.ok
                      THEN msgs \o <<Turn("assistant", c.content), Turn("user", cmd)>>
                      ELSE m1]

\* Returns the parsed Step without recording the reply.
ContinueReasoning_NoReply(msgs, cmd, resp) ==
    LET m1 == Append(msgs, Turn("user", cmd))
        c == GetCompletion(m1, resp)
    IN  [ok |-> c.ok, error |-> c.error, message |-> c.message, request |-> c.request,
         step |-> c.step, usage |-> c.usage, messages |-> m1]

\* Records the JSON text the parser extracted instead of the reply.
ContinueReasoning_StoreExtracted(msgs, cmd, resp) ==
    LET m1 == Append(msgs, Turn("user", cmd))
        c == GetCompletion(m1, resp)
    IN  [ok |-> c.ok, error |-> c.error, message |-> c.message, request |-> c.request,
         step |-> c.step, usage |-> c.usage,
         messages |-> IF c.ok
                      THEN Append(m1, Turn("assistant", ExtractJsonFromMarkdown(c.content)))
                      ELSE m1]

ContinueWith(m1, resp) == Outcome(GetCompletion(m1, resp), m1, m1)

ContinueReasoning(msgs, cmd, resp) == ContinueWith(Append(msgs, Turn("user", cmd)), resp)

(***************************************************************************)
(* ui.display_step: the step counter of the header.                        *)
(***************************************************************************)
\* Marks the step that reaches max_steps as well.
StepStyle_AtLimit(step, max_steps) ==
    IF step >= max_steps THEN "red" ELSE "cyan"

StepStyle(step, max_steps) ==
    IF step > max_steps THEN "red" ELSE "cyan"

DisplayStep(step, max_steps) ==
    [step |-> step, max_steps |-> max_steps, style |-> StepStyle(step, max_steps)]

NothingDisplayed == [step |-> 0, max_steps |-> 0, style |-> "none"]

(***************************************************************************)
(* ui.get_next_command: the menu. A choice is a digit or a command typed   *)
(* in any case; REASONING_LANGUAGE then asks for the language.             *)
(***************************************************************************)
Choices == <<"CONTINUE", "EXPLORE_OPTIMAL", "GO_SLIGHTLY_WRONG", "GO_VERY_WRONG",
             "REASONING_LANGUAGE", "EXIT">>

\* What the user types at the prompt (invalid input only asks again).
MenuInputs == {"1", "4", "5", "6", "exit", "go_very_wrong"}

LanguageInputs == {"French"}

Digits == [c \in {"1", "2", "3", "4", "5", "6"} |->
              CASE c = "1" -> 1 [] c = "2" -> 2 [] c = "3" -> 3
                [] c = "4" -> 4 [] c = "5" -> 5 [] c = "6" -> 6]

\* str.upper() and str.lower() on the tokens of the model.
Upper(tok) ==
    CASE tok = "exit" -> "EXIT"
      [] tok = "continue" -> "CONTINUE"
      [] tok = "go_very_wrong" -> "GO_VERY_WRONG"
      [] OTHER -> tok

Lower(tok) ==
    CASE tok = "EXIT" -> "exit"
      [] tok = "CONTINUE" -> "continue"
      [] tok = "EXPLORE_OPTIMAL" -> "explore_optimal"
      [] tok = "GO_SLIGHTLY_WRONG" -> "go_slightly_wrong"
      [] tok = "GO_VERY_WRONG" -> "go_very_wrong"
      [] tok = "REASONING_LANGUAGE " -> "reasoning_language "
      [] tok = "French" -> "french"
      [] OTHER -> tok

LowerText(text) == [i \in 1..Len(text) |-> Lower(text[i])]

GetNextCommand(choice, language) ==
    LET cmd == IF choice \in DOMAIN Digits THEN Choices[Digits[choice]] ELSE Upper(choice)
    IN  IF cmd = "REASONING_LANGUAGE"
        THEN <<"REASONING_LANGUAGE ", language>>
        ELSE <<cmd>>

(***************************************************************************)
(* think: the automatic command policy.                                    *)
(***************************************************************************)
AutoModes == {"continue", "vary", "wrong"}

AutoCommands(auto_mode) ==
    IF auto_mode = "continue" THEN {<<"CONTINUE">>}
    ELSE IF auto_mode = "wrong" THEN {<<"GO_VERY_WRONG">>}
    ELSE {<<"CONTINUE">>, <<"EXPLORE_OPTIMAL">>, <<"GO_SLIGHTLY_WRONG">>, <<"GO_VERY_WRONG">>}

(***************************************************************************)
(* think: the loop's test for a final solution,                            *)
(*   step_data.get("is_final_result", False)                               *)
(*     or step_data.get("solution", {}).get("type") == "FINAL"             *)
(***************************************************************************)
\* Reads the solution type only.
IsFinal_TypeOnly(step) == step.solution_type = "FINAL"

\* Reads the flag only.
IsFinal_FlagOnly(step) == step.is_final_result = "true"

IsFinal(step) ==
    step.is_final_result = "true" \/ step.solution_type = "FINAL"

\* Compares the command as returned, without lowering it.
IsExit_CaseSensitive(cmd) == cmd = <<"exit">>

\* think: command.lower() == "exit"
IsExit(cmd) == LowerText(cmd) = <<"exit">>

(***************************************************************************)
(* think: except Exception: display_error; raise typer.Exit(1)             *)
(***************************************************************************)
\* Reports the error and goes on with the loop.
ThinkExcept_Swallow == "loop"

ThinkExcept == "error"

(***************************************************************************)
(* think, lines 232-258, and save_trace: the trace file. Without --debug   *)
(* the token usage of each step is reduced to three fields.                *)
(***************************************************************************)
NoTrace == [saved |-> FALSE, steps |-> <<>>, commands |-> <<>>, total_costs |-> ZeroCosts]

\* think's simplified_token_usage: total_time = prompt_time + completion_time
TotalTime(token_usage) ==
    Fraction(token_usage.prompt_time.num + token_usage.completion_time.num,
             token_usage.prompt_time.den)

ReducedUsage(token_usage) ==
    [total_tokens |-> token_usage.total_tokens,
     cached_tokens |-> token_usage.cached_tokens,
     total_time |-> TotalTime(token_usage)]

TraceStep(recorded, debug) ==
    [step |-> recorded.step,
     token_usage |-> IF debug THEN recorded.token_usage
                     ELSE ReducedUsage(recorded.token_usage),
     costs |-> recorded.costs]

\* Saves the first step only.
SaveTrace_FirstStep(steps, cmds, costs, debug) ==
    [saved |-> TRUE,
     steps |-> <<TraceStep(steps[1], debug)>>,
     commands |-> cmds,
     total_costs |-> costs]

SaveTrace(steps, cmds, costs, debug) ==
    [saved |-> TRUE,
     steps |-> [i \in 1..Len(steps) |-> TraceStep(steps[i], debug)],
     commands |-> cmds,
     total_costs |-> costs]

(***************************************************************************)
(* The state after construction: the options are read, the client is       *)
(* built, total_costs is zero and nothing has been sent.                   *)
(***************************************************************************)
Config(task, mode, language, max_steps, auto, auto_mode, fmt) ==
    [task |-> task, mode |-> mode, language |-> language, max_steps |-> max_steps,
     auto |-> auto, auto_mode |-> auto_mode, enum_format |-> fmt,
     debug |-> FALSE, enforce_json_response |-> TRUE]

\* think's --debug option and the provider's enforce_json_response
ClientOptions(config, debug, enforce_json_response) ==
    [config EXCEPT !.debug = debug, !.enforce_json_response = enforce_json_response]

NoCall ==
    [op |-> "none", ok |-> TRUE, error |-> "none", message |-> <<>>, command |-> <<>>,
     usage |-> NoUsage]

Call(op, r, cmd) ==
    [op |-> op, ok |-> r.ok, error |-> r.error, message |-> r.message, command |-> cmd,
     usage |-> r.usage]

\* Before the first request the transport has answered nothing.
NoResponse == Response(FALSE, <<>>, NoUsage, 0)

\* Under Spec and EngineSpec no function is applied on its own.
NoUnit == [fn |-> "none", done |-> FALSE, input |-> <<>>, output |-> <<>>]

InitSession ==
    /\ messages = <<>>
    /\ step_data = NoStep
    /\ command = <<>>
    /\ commands = <<>>
    /\ current_step = 0
    /\ all_steps = <<>>
    /\ total_costs = ZeroCosts
    /\ displayed = NothingDisplayed
    /\ request = <<>>
    /\ ncalls = 0
    /\ last = NoCall
    /\ reply = NoResponse
    /\ sink = NoSink
    /\ request_params = NoParams
    /\ trace = NoTrace

Init ==
    /\ cfg \in { Config(t, m, l, s, a, am, f) :
                    t \in Tasks, m \in ThinkModes, l \in Languages, s \in MaxStepsValues,
                    a \in BOOLEAN, am \in AutoModes, f \in EnumFormats }
               \cup { ClientOptions(Config(t, DefaultMode, DefaultLanguage, DefaultMaxSteps,
                                           a, am, "value"), d, e) :
                        t \in Tasks, a \in BOOLEAN, am \in AutoModes,
                        d \in BOOLEAN, e \in BOOLEAN }
    /\ (~cfg.auto => cfg.auto_mode = "continue")
    /\ pc = "start"
    /\ InitSession
    /\ unit = NoUnit

(***************************************************************************)
(* think, lines 159-181: start the session and record step 1.              *)
(***************************************************************************)
RecordStep(r, n) ==
    LET step_costs == CalculateStepCost(r.usage, Pricing) IN
    /\ step_data' = r.step
    /\ current_step' = n
    /\ displayed' = DisplayStep(n, cfg.max_steps)
    /\ total_costs' = AddCosts(total_costs, step_costs)
    /\ all_steps' = Append(all_steps, [step |-> r.step, token_usage |-> r.usage,
                                       costs |-> step_costs])

\* The transport has received the request of a call and answered with resp.
Transported(op, r, cmd, resp) ==
    /\ request' = r.request
    /\ reply' = resp
    /\ ncalls' = ncalls + 1
    /\ last' = Call(op, r, cmd)
    /\ sink' = SaveDebugInfo(sink, r.request, resp)
    /\ request_params' = RequestParams(cfg.enforce_json_response)

\* lines 159-181 with the outcome r of start_reasoning
Started(r, resp) ==
    /\ Transported("start", r, <<>>, resp)
    /\ IF r.ok
       THEN /\ messages' = r.messages
            /\ RecordStep(r, 1)
            /\ pc' = "loop"
       ELSE /\ pc' = ThinkExcept
            /\ UNCHANGED <<messages, step_data, current_step, displayed,
                           total_costs, all_steps>>

Start ==
    /\ pc = "start"
    /\ \E resp \in Environment(cfg.debug) :
        Started(StartReasoning(cfg.task, ModeMember(cfg.mode, cfg.enum_format),
                               cfg.language, cfg.max_steps, resp), resp)
    /\ UNCHANGED <<cfg, command, commands, trace, unit>>

(***************************************************************************)
(* think, lines 184-187: the loop ends on a final Step; the trace is saved.*)
(***************************************************************************)
FinalBreak ==
    /\ pc = "loop"
    /\ IsFinal(step_data)
    /\ pc' = "saved"
    /\ trace' = SaveTrace(all_steps, commands, total_costs, cfg.debug)
    /\ UNCHANGED <<cfg, messages, step_data, command, commands, current_step,
                   all_steps, total_costs, displayed, request, ncalls, last, reply, sink, request_params, unit>>

(***************************************************************************)
(* think, lines 209-230: record the command, continue, record the step.    *)
(***************************************************************************)
\* lines 210-230 with the outcome r of continue_reasoning
Continued(r, cmd, resp) ==
    /\ Transported("continue", r, cmd, resp)
    /\ messages' = r.messages
    /\ IF r.ok
       THEN /\ RecordStep(r, current_step + 1)
            /\ pc' = "loop"
       ELSE /\ pc' = ThinkExcept
            /\ UNCHANGED <<step_data, current_step, displayed,
                           total_costs, all_steps>>

\* Sends the command without recording it in the command history.
ThinkContinue_NoHistory(cmd) ==
    /\ ncalls < MaxCalls
    /\ command' = cmd
    /\ UNCHANGED commands
    /\ \E resp \in Environment(cfg.debug) :
        Continued(ContinueReasoning(messages, cmd, resp), cmd, resp)
    /\ UNCHANGED <<cfg, trace, unit>>

ThinkContinue(cmd) ==
    /\ ncalls < MaxCalls
    /\ command' = cmd
    /\ commands' = Append(commands, cmd)
    /\ \E resp \in Environment(cfg.debug) :
        Continued(ContinueReasoning(messages, cmd, resp), cmd, resp)
    /\ UNCHANGED <<cfg, trace, unit>>

\* lines 189-203: automatic command selection
AutoStep ==
    /\ pc = "loop"
    /\ ~IsFinal(step_data)
    /\ cfg.auto
    /\ \E cmd \in AutoCommands(cfg.auto_mode) : ThinkContinue(cmd)

\* lines 204-207: the menu; EXIT leaves the loop and the trace is saved
InteractiveStep ==
    /\ pc = "loop"
    /\ ~IsFinal(step_data)
    /\ ~cfg.auto
    /\ \E choice \in MenuInputs, language \in LanguageInputs :
        LET cmd == GetNextCommand(choice, language) IN
        IF IsExit(cmd)
        THEN /\ command' = cmd
             /\ pc' = "saved"
             /\ trace' = SaveTrace(all_steps, commands, total_costs, cfg.debug)
             /\ UNCHANGED <<cfg, messages, step_data, commands, current_step,
                            all_steps, total_costs, displayed, request, ncalls, last, reply, sink, request_params, unit>>
        ELSE ThinkContinue(cmd)

Next == Start \/ FinalBreak \/ AutoStep \/ InteractiveStep

Spec == Init /\ [][Next]_vars

(***************************************************************************)
(* LLMClient as a library: a caller that holds one transcript and calls    *)
(* start_reasoning, then continue_reasoning with any command, whatever the *)
(* outcome of the call before.                                             *)
(***************************************************************************)
LibraryCommands == {<<"CONTINUE">>, <<"GO_VERY_WRONG">>, <<"REASONING_LANGUAGE ", "French">>}

EngineInit ==
    /\ cfg \in { Config(t, m, l, s, FALSE, "continue", "value") :
                    t \in Tasks, m \in Modes, l \in Languages, s \in MaxStepsValues }
               \cup { ClientOptions(Config(t, DefaultMode, DefaultLanguage, DefaultMaxSteps,
                                           FALSE, "continue", "value"), d, e) :
                        t \in Tasks, d \in BOOLEAN, e \in BOOLEAN }
    /\ pc = "library"
    /\ InitSession
    /\ unit = NoUnit

\* The caller keeps what a successful call returns.
EngineStarted(r, resp) ==
    /\ Transported("start", r, <<>>, resp)
    /\ IF r.ok
       THEN messages' = r.messages /\ step_data' = r.step
       ELSE UNCHANGED <<messages, step_data>>

EngineContinued(r, cmd, resp) ==
    /\ Transported("continue", r, cmd, resp)
    /\ messages' = r.messages
    /\ IF r.ok THEN step_data' = r.step ELSE UNCHANGED step_data

EngineStart ==
    /\ pc = "library"
    /\ messages = <<>>
    /\ ncalls < MaxCalls
    /\ \E resp \in Environment(cfg.debug) :
        EngineStarted(StartReasoning(cfg.task, StrArg(cfg.mode), cfg.language,
                                     cfg.max_steps, resp), resp)
    /\ UNCHANGED <<cfg, pc, command, commands, current_step, all_steps,
                   total_costs, displayed, trace, unit>>

EngineContinue ==
    /\ pc = "library"
    /\ messages # <<>>
    /\ ncalls < MaxCalls
    /\ \E cmd \in LibraryCommands, resp \in Environment(cfg.debug) :
        EngineContinued(ContinueReasoning(messages, cmd, resp), cmd, resp)
    /\ UNCHANGED <<cfg, pc, command, commands, current_step, all_steps,
                   total_costs, displayed, trace, unit>>

EngineNext == EngineStart \/ EngineContinue

EngineSpec == EngineInit /\ [][EngineNext]_vars

(***************************************************************************)
(* The functions of llm.py and ui.py applied on their own: one input is    *)
(* drawn, the function is applied once and its result is kept.             *)
(*                                                                         *)
(* A raw response is drawn by its parts: text before the first fence,      *)
(* up to MaxBlocks fenced blocks (tagged json or not), text after the last *)
(* block. The text before holds no fence; the text after holds at most one,*)
(* which no later fence closes.                                            *)
(***************************************************************************)
Block(tag, body) == [tag |-> tag, body |-> body]

FencedBodies ==
    { <<"\n", "{partial}", "\n">>, <<"{final,}">>, <<"not", " ", "json">>, <<>> }

Blocks == { Block(tag, body) : tag \in BOOLEAN, body \in FencedBodies }

BlockLists == UNION { [1..n -> Blocks] : n \in 0..MaxBlocks }

TextsBefore ==
    { <<>>, <<"Here:", "\n">>, <<"{final}">>, <<" ", "{plain}", "\n">>, <<"{plain,}">> }

TextsAfter == { <<>>, <<"\n", "Done.">>, <<Fence, "{final}">> }

RawParts == [before : TextsBefore, blocks : BlockLists, after : TextsAfter]

FencedBlock(b) == <<Fence>> \o (IF b.tag THEN <<"json">> ELSE <<>>) \o b.body \o <<Fence>>

RECURSIVE FencedBlocks(_)
FencedBlocks(bs) ==
    IF bs = <<>> THEN <<>> ELSE FencedBlock(bs[1]) \o FencedBlocks(Tail(bs))

\* The raw response text the parts make.
RawText(parts) == parts.before \o FencedBlocks(parts.blocks) \o parts.after

\* The transcript continue_reasoning is applied to, and its command.
UnitTranscript == <<Turn("user", <<"TASK">>), Turn("assistant", <<"{plain}">>)>>

UnitCommand == <<"CONTINUE">>

\* The functions applied to a raw response.
UnitFunctions ==
    {"_parse_response_content", "_extract_json_from_markdown",
     "start_reasoning", "continue_reasoning"}

\* Usage payloads: consistent and inconsistent counts, each shape of the
\* nested details and of the flat cache-hit attribute.
DetailsValues ==
    { NoDetails, Details("None", Absent), Details("object", Absent),
      Details("object", NoneValue), Details("object", IntValue(0)),
      Details("object", IntValue(20)) }

HitValues == { Absent, NoneValue, IntValue(30) }

UsagePayloads ==
    { Usage(p, c, t, d, h) :
         p \in {0, 100, 200}, c \in {0, 50}, t \in {0, 150},
         d \in DetailsValues, h \in HitValues }

\* Wall-clock durations of a call, in seconds.
WallClocks == {0, 3}

UsageInputs == [usage : UsagePayloads, total_time : WallClocks]

\* Token usage and pricing handed to calculate_step_cost.
TokenCounts ==
    [prompt_tokens : {0, 10, 100}, cached_tokens : {0, 20}, completion_tokens : {-5, 0, 50}]

Pricings == { Pricing, [input_tokens |-> 3, cached_tokens |-> 3, output_tokens |-> 12] }

CostInputs == [token_usage : TokenCounts, pricing : Pricings]

Unit(fn, input) == [fn |-> fn, done |-> FALSE, input |-> input, output |-> <<>>]

UnitInputs ==
    { Unit(f, i) : f \in UnitFunctions, i \in RawParts }
        \cup { Unit("_extract_token_usage", i) : i \in UsageInputs }
        \cup { Unit("calculate_step_cost", i) : i \in CostInputs }

UnitInit ==
    /\ cfg = Config("X", DefaultMode, DefaultLanguage, DefaultMaxSteps, FALSE, "continue", "value")
    /\ pc = "unit"
    /\ InitSession
    /\ unit \in UnitInputs

\* The function named fn has not been applied yet.
Pending(fn) == pc = "unit" /\ unit.fn = fn /\ ~unit.done

Result(output) == [unit EXCEPT !.done = TRUE, !.output = output]

ApplyParseResponseContent ==
    /\ Pending("_parse_response_content")
    /\ unit' = Result(ParseResponseContent(RawText(unit.input)))
    /\ UNCHANGED <<cfg, pc, messages, step_data, command, commands, current_step,
                   all_steps, total_costs, displayed, request, ncalls, last, reply, sink, request_params, trace>>

ApplyExtractJsonFromMarkdown ==
    /\ Pending("_extract_json_from_markdown")
    /\ unit' = Result(ExtractJsonFromMarkdown(RawText(unit.input)))
    /\ UNCHANGED <<cfg, pc, messages, step_data, command, commands, current_step,
                   all_steps, total_costs, displayed, request, ncalls, last, reply, sink, request_params, trace>>

ApplyStartReasoning ==
    /\ Pending("start_reasoning")
    /\ unit' = Result(StartReasoning(cfg.task, StrArg(cfg.mode), cfg.language, cfg.max_steps,
                                     Response(TRUE, RawText(unit.input), UsageOpenAI, 3)))
    /\ UNCHANGED <<cfg, pc, messages, step_data, command, commands, current_step,
                   all_steps, total_costs, displayed, request, ncalls, last, reply, sink, request_params, trace>>

ApplyContinueReasoning ==
    /\ Pending("continue_reasoning")
    /\ unit' = Result(ContinueReasoning(UnitTranscript, UnitCommand,
                                        Response(TRUE, RawText(unit.input), UsageOpenAI, 3)))
    /\ UNCHANGED <<cfg, pc, messages, step_data, command, commands, current_step,
                   all_steps, total_costs, displayed, request, ncalls, last, reply, sink, request_params, trace>>

ApplyExtractTokenUsage ==
    /\ Pending("_extract_token_usage")
    /\ unit' = Result(ExtractTokenUsage(unit.input.usage, unit.input.total_time))
    /\ UNCHANGED <<cfg, pc, messages, step_data, command, commands, current_step,
                   all_steps, total_costs, displayed, request, ncalls, last, reply, sink, request_params, trace>>

ApplyCalculateStepCost ==
    /\ Pending("calculate_step_cost")
    /\ unit' = Result(CalculateStepCost(unit.input.token_usage, unit.input.pricing))
    /\ UNCHANGED <<cfg, pc, messages, step_data, command, commands, current_step,
                   all_steps, total_costs, displayed, request, ncalls, last, reply, sink, request_params, trace>>

UnitNext ==
    \/ ApplyParseResponseContent
    \/ ApplyExtractJsonFromMarkdown
    \/ ApplyStartReasoning
    \/ ApplyContinueReasoning
    \/ ApplyExtractTokenUsage
    \/ ApplyCalculateStepCost

UnitSpec == UnitInit /\ [][UnitNext]_vars

(***************************************************************************)
(* Properties.                                                             *)
(***************************************************************************)
\* user, assistant, user, ... from the first turn on
Alternating(m) ==
    \A i \in 1..Len(m) : m[i].role = IF i % 2 = 1 THEN "user" ELSE "assistant"

EndsWithUser(m) == m # <<>> /\ Last(m).role = "user"

\* A call was made in this step: the transport received one more request.
CallMade == ncalls' = ncalls + 1

\* The two termination signals, as the specification states them.
FinalSignal(step) == step.solution_type = "FINAL" \/ step.is_final_result = "true"

ExitCommand == <<"EXIT">>

\* C1: the transcript is append-only: whatever a start or continue call does,
\* succeeding or failing, the transcript before the call is an unchanged
\* prefix of the transcript after it.
C1_AppendOnly == [][IsPrefix(messages, messages')]_vars

\* A continue call that failed after an earlier exchange was recorded.
C1_Witness ==
    /\ last.op = "continue" /\ ~last.ok
    /\ Len(messages) >= 3
    /\ messages[2].role = "assistant"

\* C2 as stated: after a successful start and N successful continue rounds
\* (N = current_step - 1) the transcript has exactly 1 + 2N turns.
C2_Original ==
    pc \in {"loop", "saved"} => Len(messages) = 1 + 2 * (current_step - 1)

\* C2 as amended: after a successful start and N successful continue rounds
\* the transcript has exactly 2 + 2N turns: the reply to the task turn is
\* recorded too.
C2_TurnCount ==
    pc \in {"loop", "saved"} => Len(messages) = 2 + 2 * (current_step - 1)

\* Two continue rounds have succeeded.
C2_Witness == pc = "loop" /\ current_step = 3 /\ Len(messages) = 6

\* C3 as stated: in every state reached by any sequence of start/continue
\* calls, failed ones included, the turns alternate user, assistant, ...
C3_Original == Alternating(messages)

\* C3 as amended: a call made on a transcript that alternates and does not end
\* with an unanswered user turn leaves a transcript that alternates, whether
\* the call succeeds or fails.
C3_Amended ==
    [][(Alternating(messages) /\ ~EndsWithUser(messages)) => Alternating(messages')]_vars

\* A failed continue call has left its user turn unanswered; the turns still alternate.
C3_Witness ==
    /\ last.op = "continue" /\ ~last.ok
    /\ Len(messages) = 3
    /\ Alternating(messages)

\* C4: a failed continue call leaves the caller's transcript as it was plus
\* exactly one user turn holding the command; no assistant turn is appended
\* and the caller's Step is the one it had.
C4_FailedContinue ==
    [][(CallMade /\ last'.op = "continue" /\ ~last'.ok)
        => /\ messages' = Append(messages, Turn("user", last'.command))
           /\ step_data' = step_data]_vars

\* The transport answered, no parse stage succeeded, and the command is the last turn.
C4_Witness ==
    /\ last.op = "continue" /\ last.error = "parse"
    /\ Len(messages) = 3
    /\ Last(messages) = Turn("user", last.command)

\* C5 as stated: the command loop terminates if and only if the most recent
\* Step is final (here the direction "only if": a loop that has ended has a
\* final Step).
C5_Original == pc = "saved" => FinalSignal(step_data)

\* C5 as amended: the loop ends normally only on a final Step or on EXIT; on a
\* final Step it always ends; on any other Step it obtains a command and,
\* unless that command is EXIT, records it and issues a continue call with it.
C5_Termination ==
    /\ [](pc = "saved" => (FinalSignal(step_data) \/ command = ExitCommand))
    /\ [][(pc = "loop" /\ FinalSignal(step_data)) => pc' = "saved"]_vars
    /\ [][(pc = "loop" /\ ~FinalSignal(step_data))
            => \/ /\ command' = ExitCommand
                  /\ pc' = "saved"
                  /\ ~CallMade
               \/ /\ command' # ExitCommand
                  /\ CallMade
                  /\ last'.op = "continue"
                  /\ last'.command = command'
                  /\ commands' = Append(commands, command')]_vars

\* The loop went round at least once and ended on a Step of type FINAL.
C5_Witness ==
    /\ pc = "saved"
    /\ step_data.solution_type = "FINAL"
    /\ Len(commands) >= 1

\* C6: either signal stops the loop, also when the two disagree: from a Step
\* with is_final_result set or solution.type FINAL the loop ends, no command
\* is recorded and no transport call is made, then or later.
C6_EitherSignalStops ==
    /\ [][(pc = "loop"
            /\ (step_data.is_final_result = "true" \/ step_data.solution_type = "FINAL"))
          => /\ pc' = "saved"
             /\ commands' = commands
             /\ messages' = messages
             /\ ~CallMade]_vars
    /\ [][pc = "saved" => (pc' = "saved" /\ commands' = commands /\ ~CallMade)]_vars

\* The loop has ended on a Step whose flag is set while its solution is PARTIAL.
C6_Witness ==
    /\ pc = "saved"
    /\ step_data.is_final_result = "true"
    /\ step_data.solution_type = "PARTIAL"

\* C7: a failed start or continue call reaches the caller and ends the
\* session: the failing call records no step and adds no cost, and after it
\* there is no transport call, no step and no change of the running total.
C7_FailureAborts ==
    /\ [][(CallMade /\ ~last'.ok)
          => /\ pc' = "error"
             /\ all_steps' = all_steps
             /\ total_costs' = total_costs
             /\ current_step' = current_step]_vars
    /\ [][pc = "error"
          => /\ pc' = "error"
             /\ ~CallMade
             /\ all_steps' = all_steps
             /\ total_costs' = total_costs]_vars

\* A continue call failed in the parser after one step was recorded.
C7_Witness ==
    /\ pc = "error"
    /\ last.op = "continue" /\ last.error = "parse"
    /\ Len(all_steps) = 1

RECURSIVE SplitLines(_)
SplitLines(s) ==
    IF s = <<>> THEN <<>>
    ELSE LET k == IndexFrom(s, "\n", 1) IN
         IF k = 0 THEN <<s>>
         ELSE <<SubSeq(s, 1, k - 1)>> \o SplitLines(SubSeq(s, k + 1, Len(s)))

OptionRank(line) ==
    CASE line[1] = "MODE: " -> 1
      [] line[1] = "REASONING_LANGUAGE: " -> 2
      [] line[1] = "MAX_STEPS: " -> 3
      [] OTHER -> 0

\* The task message the specification asks for, for (task, mode, language,
\* max_steps): the TASK line, then one line per option that is not at its
\* default (EXPLORE_OPTIMAL, English, 10), carrying the value, in the order
\* MODE, REASONING_LANGUAGE, MAX_STEPS, every line ended by a line break.
IsTaskMessageFor(msg, task, mode, language, max_steps) ==
    LET lines == SplitLines(msg)
        HasLine(l) == \E i \in 2..Len(lines) : lines[i] = l
        n == 1 + (IF mode # "EXPLORE_OPTIMAL" THEN 1 ELSE 0)
               + (IF language # "English" THEN 1 ELSE 0)
               + (IF max_steps # 10 THEN 1 ELSE 0)
    IN  /\ msg # <<>> /\ Last(msg) = "\n"
        /\ Len(lines) = n
        /\ lines[1] = <<"TASK: ", Fence, task, Fence>>
        /\ (HasLine(<<"MODE: ", mode>>) <=> mode # "EXPLORE_OPTIMAL")
        /\ (HasLine(<<"REASONING_LANGUAGE: ", language>>) <=> language # "English")
        /\ (HasLine(<<"MAX_STEPS: ", ToString(max_steps)>>) <=> max_steps # 10)
        /\ \A i, j \in 2..Len(lines) :
              i < j => /\ OptionRank(lines[i]) > 0
                       /\ OptionRank(lines[i]) < OptionRank(lines[j])

\* The task turn of the last request: the first turn after the system turn.
TaskMessageSent == request[2].content

C9_PlainStrArguments ==
    (pc = "library" /\ ncalls >= 1)
        => IsTaskMessageFor(TaskMessageSent, cfg.task, cfg.mode, cfg.language, cfg.max_steps)

\* C10: every continue call appends exactly one user turn, whose content is
\* the command as passed, right after the transcript it was given, and the
\* request the transport receives in that call ends with this turn.
C10_CommandTurn ==
    [][(CallMade /\ last'.op = "continue")
        => LET n == Len(messages)
               turn == Turn("user", last'.command)
           IN  /\ Len(messages') > n
               /\ SubSeq(messages', 1, n) = messages
               /\ messages'[n + 1] = turn
               /\ \A i \in (n + 2)..Len(messages') : messages'[i].role # "user"
               /\ Len(request') = n + 2
               /\ Last(request') = turn]_vars

\* A continue call with a two-token command has succeeded.
C10_Witness ==
    /\ last.op = "continue" /\ last.ok
    /\ last.command = <<"REASONING_LANGUAGE ", "French">>
    /\ Len(messages) = 4
    /\ messages[3] = Turn("user", last.command)
    /\ Last(request) = messages[3]

(***************************************************************************)
(* The assistant turn and the request.                                     *)
(***************************************************************************)
\* C11: on every successful start or continue call the assistant turn appended
\* to the transcript holds the raw response text exactly as the transport
\* returned it, also when the Step was obtained through fenced extraction or
\* repair.
C11_RawAssistantText ==
    [][(CallMade /\ last'.ok) =>
          /\ Len(messages') >= 2
          /\ Last(messages') = Turn("assistant", reply'.content)]_vars

\* A continue call succeeded on a reply whose Step came out of a fenced block,
\* after a start call whose Step came out of repair.
C11_Witness ==
    /\ last.op = "continue" /\ last.ok
    /\ reply.content = RawFenced("{partial}")
    /\ ~JsonLoads(reply.content).ok
    /\ step_data = Step("false", "PARTIAL")
    /\ Last(messages).content = reply.content
    /\ messages[2] = Turn("assistant", <<"{plain,}">>)

\* The transcript a call sends: for continue, the caller's transcript with the
\* command turn appended; for start, the one task turn.
SentTranscript ==
    IF last'.op = "continue"
    THEN Append(messages, Turn("user", last'.command))
    ELSE <<request'[Len(request')]>>

NoSystemTurn(m) == \A i \in 1..Len(m) : m[i].role # "system"

\* C12: the system turn is never stored: the transcript has no turn of role
\* system in any reachable state, while every outbound request consists of
\* exactly one system turn at position 0 followed by the current transcript.
C12_SystemTurn ==
    /\ []NoSystemTurn(messages)
    /\ [][CallMade =>
            /\ request' = <<Turn("system", SystemPrompt)>> \o SentTranscript
            /\ NoSystemTurn(SentTranscript)
            /\ last'.op = "start" => request'[2].role = "user"]_vars

\* The third request of a session: the system turn, then the five turns of
\* the transcript, which itself holds no system turn.
C12_Witness ==
    /\ ncalls = 3 /\ last.ok
    /\ Len(request) = 6 /\ Len(messages) = 6
    /\ request[1] = Turn("system", SystemPrompt)
    /\ Tail(request) = SubSeq(messages, 1, 5)

(***************************************************************************)
(* The parser.                                                             *)
(***************************************************************************)
Applied(fn) == unit.fn = fn /\ unit.done

\* The text stage 2 works on, read off the parts of the raw response: the
\* trimmed content of the first fenced block, or the trimmed raw text when
\* the response has no fenced block.
StageTwoText(parts) ==
    IF parts.blocks # <<>> THEN Strip(parts.blocks[1].body) ELSE Strip(RawText(parts))

\* C13: the parser is a three-stage cascade that stops at the first success:
\* when the raw text parses strictly, that result is returned and neither
\* fence extraction nor repair is invoked; otherwise when the fenced content
\* (or the trimmed raw text when there is no fence) parses strictly, that
\* result is returned and repair is not invoked; only otherwise the repair of
\* that same text is parsed and returned.
C13_Cascade ==
    Applied("_parse_response_content") =>
        LET out == unit.output
            direct == JsonLoads(RawText(unit.input))
            text == StageTwoText(unit.input)
            fenced == JsonLoads(text)
            repaired == JsonLoads(RepairJson(text))
        IN  IF direct.ok
            THEN /\ out.ok /\ out.value = direct.value
                 /\ out.calls = <<"json.loads">>
            ELSE IF fenced.ok
            THEN /\ out.ok /\ out.value = fenced.value
                 /\ out.calls = <<"json.loads", "_extract_json_from_markdown", "json.loads">>
            ELSE /\ out.ok = repaired.ok /\ out.value = repaired.value
                 /\ out.calls = <<"json.loads", "_extract_json_from_markdown", "json.loads",
                                  "repair_json", "json.loads">>

\* The first fenced block holds a document with a trailing comma and the
\* second a strict one: stage 2 failed on the first block, and the parser
\* returned the repair of that same block.
C13_Witness ==
    /\ Applied("_parse_response_content")
    /\ unit.input.blocks = <<Block(TRUE, <<"{final,}">>), Block(FALSE, <<"\n", "{partial}", "\n">>)>>
    /\ unit.output.ok /\ unit.output.value = JsonDocs["{final}"]
    /\ Len(unit.output.calls) = 5

\* C14: when the raw text is not strict JSON and contains one or more
\* triple-backtick fenced blocks (optionally tagged json), stage 2 parses the
\* content of the first fenced block only, ignoring the prose around it and
\* any later block; when there is no fenced block the whole trimmed raw text
\* is used.
C14_FirstFencedBlock ==
    /\ Applied("_extract_json_from_markdown") =>
            unit.output = IF unit.input.blocks # <<>>
                          THEN Strip(unit.input.blocks[1].body)
                          ELSE Strip(RawText(unit.input))
    /\ (Applied("_parse_response_content") /\ ~JsonLoads(RawText(unit.input)).ok
            /\ unit.input.blocks # <<>>) =>
            LET first == JsonLoads(unit.input.blocks[1].body) IN
            /\ first.ok => unit.output.value = first.value
            /\ unit.output.calls[3] = "json.loads"
            /\ ~first.ok => unit.output.calls[4] = "repair_json"

\* Prose, two fenced blocks with different documents, prose: the extraction
\* gave the content of the first block.
C14_Witness ==
    /\ Applied("_extract_json_from_markdown")
    /\ unit.input.before = <<"Here:", "\n">>
    /\ unit.input.blocks = <<Block(TRUE, <<"\n", "{partial}", "\n">>), Block(FALSE, <<"{final,}">>)>>
    /\ unit.input.after = <<"\n", "Done.">>
    /\ unit.output = <<"{partial}">>

\* Strict parsing of the raw text, strict parsing of the stage-2 text and
\* parsing of its repair all fail.
AllStagesFail(parts) ==
    /\ ~JsonLoads(RawText(parts)).ok
    /\ ~JsonLoads(StageTwoText(parts)).ok
    /\ ~JsonLoads(RepairJson(StageTwoText(parts))).ok

\* C15: for every raw response for which direct, fenced and repaired parsing
\* all fail, the parser fails with a response-format error that carries the
\* underlying parse error and returns no Step, and the enclosing start or
\* continue call fails with it.
C15_ParseFailure ==
    (unit.done /\ unit.fn \in UnitFunctions /\ AllStagesFail(unit.input)) =>
        LET out == unit.output IN
        /\ unit.fn = "_parse_response_content" =>
                /\ ~out.ok /\ out.value = NoStep
                /\ out.error # <<>> /\ Last(out.error) = JsonDecodeError
        /\ unit.fn \in {"start_reasoning", "continue_reasoning"} =>
                /\ ~out.ok /\ out.step = NoStep
                /\ out.error = "parse"
                /\ IsPrefix(<<"Failed to parse response: ">>, out.message)
                /\ Last(out.message) = JsonDecodeError

\* continue_reasoning failed on a reply whose first fenced block holds prose,
\* although a later block holds a document.
C15_Witness ==
    /\ Applied("continue_reasoning")
    /\ unit.input.blocks = <<Block(FALSE, <<"not", " ", "json">>), Block(TRUE, <<"\n", "{partial}", "\n">>)>>
    /\ AllStagesFail(unit.input)
    /\ ~unit.output.ok /\ unit.output.error = "parse"
    /\ Last(unit.output.messages) = Turn("user", UnitCommand)

(***************************************************************************)
(* The usage normaliser.                                                   *)
(***************************************************************************)
\* The cached count the two schemas supply, in the priority of the claim:
\* the nested field when it holds a count, else the flat field when it holds
\* a count, else 0.
SuppliedCachedTokens(usage) ==
    IF /\ usage.prompt_tokens_details.kind = "object"
       /\ usage.prompt_tokens_details.cached_tokens.kind = "int"
    THEN usage.prompt_tokens_details.cached_tokens.n
    ELSE IF usage.prompt_cache_hit_tokens.kind = "int"
    THEN usage.prompt_cache_hit_tokens.n
    ELSE 0

\* C16: the normaliser resolves cached_tokens in a fixed priority: the nested
\* prompt-token-details structure's cached-token field if that field is
\* present; otherwise the flat prompt-cache-hit-tokens field if present;
\* otherwise 0. It never fails and never reports 0 or a non-integer when one
\* of the two schemas supplies a cached count.
C16_CachedTokens ==
    Applied("_extract_token_usage") =>
        /\ unit.output.fault = "none"
        /\ ~unit.output.cached_tokens_is_none
        /\ unit.output.cached_tokens = SuppliedCachedTokens(unit.input.usage)

\* What the code does: the nested field is read whenever the nested structure
\* is there, a missing field giving 0 and a None field None; the flat field
\* is read only when there is no nested structure.
C16_StructureDecides ==
    Applied("_extract_token_usage") =>
        LET usage == unit.input.usage
            nested == usage.prompt_tokens_details
        IN  /\ unit.output.fault = "none"
            /\ nested.kind = "object" =>
                   /\ unit.output.cached_tokens = nested.cached_tokens.n
                   /\ unit.output.cached_tokens_is_none = (nested.cached_tokens.kind = "None")
            /\ nested.kind # "object" =>
                   /\ unit.output.cached_tokens = usage.prompt_cache_hit_tokens.n
                   /\ unit.output.cached_tokens_is_none =
                          (usage.prompt_cache_hit_tokens.kind = "None")

\* Comparisons of fractions with a positive denominator.
NonNegative(q) == q.den > 0 /\ q.num >= 0

SumsTo(q1, q2, x) == q1.num * q2.den + q2.num * q1.den = x * q1.den * q2.den

EqualsFraction(q, num, den) == q.num * den = num * q.den

\* C17: for every provider usage payload and every non-negative wall-clock
\* duration, prompt_time and completion_time are both non-negative and sum to
\* the wall-clock duration, prompt_time being the prompt_tokens / total_tokens
\* share of it.
C17_TimeSplit ==
    Applied("_extract_token_usage") =>
        LET usage == unit.input.usage
            total_time == unit.input.total_time
            out == unit.output
        IN  /\ NonNegative(out.prompt_time)
            /\ NonNegative(out.completion_time)
            /\ SumsTo(out.prompt_time, out.completion_time, total_time)
            /\ usage.total_tokens > 0 =>
                   EqualsFraction(out.prompt_time,
                                  total_time * usage.prompt_tokens, usage.total_tokens)

\* What the code guarantees: the two times always sum to the duration
\* (exactly in the arithmetic of the model, up to rounding in floating point),
\* and they are non-negative when the payload's prompt_tokens does not exceed
\* its total_tokens.
C17_ConsistentCounts ==
    Applied("_extract_token_usage") =>
        LET usage == unit.input.usage
            out == unit.output
        IN  /\ SumsTo(out.prompt_time, out.completion_time, unit.input.total_time)
            /\ (usage.total_tokens = 0 \/ usage.prompt_tokens <= usage.total_tokens) =>
                   NonNegative(out.prompt_time) /\ NonNegative(out.completion_time)

\* C18: when the payload reports total_tokens = 0 the normaliser does not
\* fault on a division by zero: prompt_ratio is taken as 0.5, so each of
\* prompt_time and completion_time is half the wall-clock duration.
C18_ZeroTotal ==
    (Applied("_extract_token_usage") /\ unit.input.usage.total_tokens = 0) =>
        /\ unit.output.fault = "none"
        /\ EqualsFraction(unit.output.prompt_time, unit.input.total_time, 2)
        /\ EqualsFraction(unit.output.completion_time, unit.input.total_time, 2)
        /\ NonNegative(unit.output.prompt_time)
        /\ NonNegative(unit.output.completion_time)

\* A payload with total_tokens = 0 and a call of 3 seconds: each time is 3/2.
C18_Witness ==
    /\ Applied("_extract_token_usage")
    /\ unit.input.usage.total_tokens = 0
    /\ unit.input.usage.prompt_tokens = 0
    /\ unit.input.total_time = 3
    /\ unit.output.prompt_time = Fraction(3, 2)
    /\ unit.output.completion_time = Fraction(3, 2)

(***************************************************************************)
(* The cost calculator. Costs are in millionths of the currency unit: the  *)
(* numerator of (tokens * price) / 1,000,000.                              *)
(***************************************************************************)
\* C19: the cost calculator returns input_cost = (prompt_tokens -
\* cached_tokens) * price.input / 1,000,000, cached_cost = cached_tokens *
\* price.cached / 1,000,000, output_cost = completion_tokens * price.output /
\* 1,000,000 and total_cost equal to the sum of those three, with no side
\* effect on its inputs.
C19_CostBreakdown ==
    [][(Pending("calculate_step_cost") /\ unit'.done) =>
          LET token_usage == unit.input.token_usage
              pricing == unit.input.pricing
              out == unit'.output
          IN  /\ out.input_cost =
                     (token_usage.prompt_tokens - token_usage.cached_tokens)
                         * pricing.input_tokens
              /\ out.cached_cost = token_usage.cached_tokens * pricing.cached_tokens
              /\ out.output_cost = token_usage.completion_tokens * pricing.output_tokens
              /\ out.total_cost = FloatAdd(FloatAdd(out.input_cost, out.cached_cost),
                                            out.output_cost)
              /\ unit'.input = unit.input]_vars

\* 100 prompt tokens of which 20 cached, 50 completion tokens, prices 5, 1
\* and 15 per million: 0.0004, 0.00002 and 0.00075, in all 0.00117.
C19_Witness ==
    /\ Applied("calculate_step_cost")
    /\ unit.input.token_usage =
          [prompt_tokens |-> 100, cached_tokens |-> 20, completion_tokens |-> 50]
    /\ unit.input.pricing = Pricing
    /\ unit.output = [input_cost |-> 400, cached_cost |-> 20, output_cost |-> 750,
                      total_cost |-> 1170]

\* C20: when cached_tokens exceeds prompt_tokens (or a token count is
\* negative) the cost calculation either clamps the effective prompt tokens
\* to 0 or surfaces a configuration error; it never yields a negative
\* input_cost or total_cost. calculate_step_cost has no failure outcome, so
\* the claim leaves it the non-negative costs.
C20_NonNegativeCost ==
    Applied("calculate_step_cost") =>
        /\ unit.output.input_cost >= 0
        /\ unit.output.total_cost >= 0

(***************************************************************************)
(* The session running total of think.                                     *)
(***************************************************************************)
\* sum of bucket k over the first n recorded steps, added in the order the
\* loop adds them, starting from 0.0
RECURSIVE SumOfSteps(_, _, _)
SumOfSteps(steps, k, n) ==
    IF n = 0 THEN 0 ELSE FloatAdd(SumOfSteps(steps, k, n - 1), steps[n].costs[k])

BucketSum(costs) ==
    FloatAdd(FloatAdd(costs.input_cost, costs.cached_cost), costs.output_cost)

PerBucketSum ==
    \A k \in DOMAIN total_costs :
        total_costs[k] = SumOfSteps(all_steps, k, Len(all_steps))

WithoutSink ==
    IF last'.op = "start"
    THEN StartReasoning(cfg.task, StrArg(cfg.mode), cfg.language, cfg.max_steps,
                        WithDebug(reply', "none"))
    ELSE ContinueReasoning(messages, last'.command, WithDebug(reply', "none"))

SameOutcome(plain) ==
    /\ last'.ok = plain.ok
    /\ last'.usage = plain.usage
    /\ messages' = plain.messages
    /\ (plain.ok => step_data' = plain.step)

\* C22: configuring a debug sink never alters parsing or control flow: for
\* the same transport responses a session with a debug sink and one without
\* return the same Steps, transcripts, usage token counts and success or
\* failure for every start/continue call, also when emitting the debug
\* record fails. The two sessions are in the same state up to the first call
\* whose outcomes differ, so each call of the session with the sink is
\* compared with the same call on a client without one.
C22_DebugTransparent ==
    [][(cfg.debug /\ ncalls' = ncalls + 1) => SameOutcome(WithoutSink)]_vars

\* The same, for the calls whose debug record is written.
C22_TransparentWhenWritten ==
    [][(cfg.debug /\ ncalls' = ncalls + 1 /\ reply'.debug # "failed")
          => SameOutcome(WithoutSink)]_vars

\* A call the transport answered with a well-formed Step failed because its
\* debug record could not be written.
C22_DebugFailure ==
    /\ cfg.debug
    /\ reply.transport_ok /\ reply.debug = "failed"
    /\ ParseResponseContent(reply.content).ok
    /\ ~last.ok /\ last.error = "debug"

CallNumbers == [i \in 1..Len(sink.records) |-> sink.records[i].call_number]

\* C23: with a debug sink configured, exactly one debug record is emitted
\* per transport call, including calls that fail in the transport or whose
\* response later fails to parse, and the records' call sequence numbers are
\* 1, 2, 3, ... in call order with no gap or repeat.
C23_OneRecordPerCall ==
    cfg.debug =>
        /\ Len(sink.records) = ncalls
        /\ CallNumbers = [i \in 1..ncalls |-> i]

\* What the sink does get: a call adds one record, numbered by the counter,
\* exactly when the transport answered it and the record could be written,
\* whether or not the answer parses; the numbers only grow.
C23_RecordPerAnswer ==
    [][(cfg.debug /\ ncalls' = ncalls + 1) =>
          /\ sink'.records =
                 IF reply'.transport_ok /\ reply'.debug = "written"
                 THEN Append(sink.records,
                             DebugRecord(sink'.call_counter, request', reply'.content))
                 ELSE sink.records
          /\ sink'.call_counter =
                 IF reply'.transport_ok THEN sink.call_counter + 1 ELSE sink.call_counter
          /\ \A i \in 1..Len(sink.records) :
                 sink.records[i].call_number < sink'.call_counter + 1]_vars

\* The transport failed on a call and the sink holds fewer records than
\* calls were made.
C23_NoRecordOfFailure ==
    /\ cfg.debug
    /\ ~reply.transport_ok /\ last.error = "transport"
    /\ Len(sink.records) < ncalls

(***************************************************************************)
(* The request parameters.                                                 *)
(***************************************************************************)
\* C24: every transport request asks the endpoint for JSON-object output
\* mode if and only if enforce_json_response is true; when it is false the
\* request carries no response-format constraint at all.
C24_ResponseFormat ==
    ncalls > 0 =>
        /\ request_params.response_format = "json_object" <=> cfg.enforce_json_response
        /\ ~cfg.enforce_json_response => request_params.response_format = "absent"

\* A request was sent by a client built with enforce_json_response false.
C24_Witness ==
    /\ ncalls > 0
    /\ ~cfg.enforce_json_response
    /\ request_params.response_format = "absent"
    /\ request # <<>>

\* A request was sent by a client built with enforce_json_response true.
C24_WitnessEnforced ==
    /\ ncalls > 0
    /\ cfg.enforce_json_response
    /\ request_params.response_format = "json_object"

(***************************************************************************)
(* The commands of the command loop.                                       *)
(***************************************************************************)
SteeringCommands ==
    {<<"CONTINUE">>, <<"EXPLORE_OPTIMAL">>, <<"GO_SLIGHTLY_WRONG">>, <<"GO_VERY_WRONG">>}

IsLanguageCommand(cmd) == Len(cmd) = 2 /\ cmd[1] = "REASONING_LANGUAGE "

\* the loop has just sent cmd: it is the user turn that ends the request
LoopSent(cmd) ==
    /\ ncalls' = ncalls + 1
    /\ last'.op = "continue"
    /\ Last(request') = Turn("user", cmd)

\* C25: every command the command loop sends as a user turn is one of
\* CONTINUE, EXPLORE_OPTIMAL, GO_SLIGHTLY_WRONG, GO_VERY_WRONG or
\* REASONING_LANGUAGE <value>: in auto mode 'continue' always CONTINUE, in
\* auto mode 'wrong' always GO_VERY_WRONG, in auto mode 'vary' one of the
\* first four, in interactive mode whatever the menu accepted; EXIT is never
\* sent to the model.
C25_CommandsSent ==
    [][(ncalls' = ncalls + 1 /\ pc = "loop") =>
          /\ LoopSent(command')
          /\ command' \in SteeringCommands \/ IsLanguageCommand(command')
          /\ (cfg.auto /\ cfg.auto_mode = "continue") => command' = <<"CONTINUE">>
          /\ (cfg.auto /\ cfg.auto_mode = "wrong") => command' = <<"GO_VERY_WRONG">>
          /\ (cfg.auto /\ cfg.auto_mode = "vary") => command' \in SteeringCommands
          /\ ~cfg.auto =>
                 \E choice \in MenuInputs, language \in LanguageInputs :
                     command' = GetNextCommand(choice, language)
          /\ LowerText(command') # <<"exit">>]_vars

\* In auto mode 'vary' the loop has sent GO_SLIGHTLY_WRONG.
C25_Witness ==
    /\ cfg.auto /\ cfg.auto_mode = "vary"
    /\ last.op = "continue"
    /\ command = <<"GO_SLIGHTLY_WRONG">>
    /\ Last(request) = Turn("user", command)

\* In interactive mode the loop has sent the language command of the menu.
C25_WitnessMenu ==
    /\ ~cfg.auto
    /\ last.op = "continue"
    /\ command = <<"REASONING_LANGUAGE ", "French">>
    /\ Last(request) = Turn("user", command)

(***************************************************************************)
(* The bookkeeping of the command loop.                                    *)
(***************************************************************************)
\* the n-th user turn of a transcript that alternates from a user turn
UserTurn(msgs, n) == msgs[2 * n - 1]

\* C26: at every evaluation of the loop condition in the command loop the
\* bookkeeping is consistent: the number of recorded steps is current_step
\* and is the number of recorded commands plus one, the transcript has
\* exactly 2 * current_step turns, and the k-th recorded command is the
\* content of the (k+1)-th user turn of the transcript.
C26_Bookkeeping ==
    pc = "loop" =>
        /\ Len(all_steps) = current_step
        /\ current_step = Len(commands) + 1
        /\ Len(messages) = 2 * current_step
        /\ \A k \in 1..Len(commands) :
               UserTurn(messages, k + 1) = Turn("user", commands[k])

\* The loop condition is evaluated after two rounds with different commands.
C26_Witness ==
    /\ pc = "loop"
    /\ current_step = 3
    /\ Len(commands) = 2 /\ commands[1] # commands[2]
    /\ Len(all_steps) = 3 /\ Len(messages) = 6
    /\ messages[3].content = commands[1] /\ messages[5].content = commands[2]

(***************************************************************************)
(* EXIT and the trace.                                                     *)
(***************************************************************************)
\* the menu is asked and answers EXIT
ExitChosen ==
    /\ pc = "loop" /\ ~IsFinal(step_data) /\ ~cfg.auto
    /\ LowerText(command') = <<"exit">>

TraceHolds(steps) ==
    /\ trace'.saved
    /\ Len(trace'.steps) = Len(steps)
    /\ \A i \in 1..Len(steps) :
           /\ trace'.steps[i].step = steps[i].step
           /\ trace'.steps[i].costs = steps[i].costs

\* C27: in interactive mode, choosing EXIT ends the loop immediately without
\* changing session state: the exit command is not added to the command
\* history, no user turn is appended to the transcript, no transport call is
\* made, the running cost total is unchanged, and the trace is then saved
\* with the steps recorded so far; after a failed call, by contrast, no trace
\* is saved.
C27_ExitFrame ==
    /\ [][ExitChosen =>
             /\ pc' = "saved"
             /\ commands' = commands
             /\ messages' = messages
             /\ ncalls' = ncalls /\ request' = request
             /\ total_costs' = total_costs
             /\ all_steps' = all_steps /\ current_step' = current_step
             /\ TraceHolds(all_steps)
             /\ trace'.commands = commands
             /\ trace'.total_costs = total_costs]_vars
    /\ [][(CallMade /\ ~last'.ok) => (pc' = "error" /\ ~trace'.saved)]_vars
    /\ [](pc = "error" => ~trace.saved)

\* EXIT was chosen after one round: two steps, one command and four turns
\* are kept and the trace holds the two steps.
C27_Witness ==
    /\ pc = "saved" /\ ~cfg.auto
    /\ command = <<"EXIT">>
    /\ Len(all_steps) = 2 /\ Len(commands) = 1 /\ Len(messages) = 4
    /\ ncalls = 2
    /\ trace.saved /\ Len(trace.steps) = 2
    /\ ~IsFinal(step_data)

\* A continue call failed after the first step: no trace.
C27_WitnessFailure ==
    /\ pc = "error"
    /\ last.op = "continue" /\ ~last.ok
    /\ Len(all_steps) = 1
    /\ ~trace.saved

====
